---- MODULE Spec2Model ----
(***************************************************************************)
(* Model of the 10x e-commerce backend.                                    *)
(*                                                                         *)
(*   SpecCategory : the category router (routes/categoryRoutes.js): one    *)
(*                  request walking the middleware chain of its route.     *)
(*   SpecSlug     : Product documents (app.js, ProductSchema) saved        *)
(*                  concurrently: validation, the pre-save slug hook, the  *)
(*                  write against the unique slug index.                   *)
(*   SpecCatalog  : Product documents with their variants, images and      *)
(*                  discount: schema validation and discountedPrices.      *)
(*   SpecApp      : one request walking the application's middleware       *)
(*                  stack (app.js) under Express's dispatch rules.         *)
(***************************************************************************)
EXTENDS Integers, Sequences, FiniteSets, TLC

VARIABLES creq, cpc, cran, cerrs, cres, categories, docs, db,
          areq, apc, aerr, aran, ares

catVars == <<creq, cpc, cran, cerrs, cres, categories>>
prodVars == <<docs, db>>
appVars == <<areq, apc, aerr, aran, ares>>
vars == <<creq, cpc, cran, cerrs, cres, categories, docs, db,
          areq, apc, aerr, aran, ares>>

(***************************************************************************)
(* Request values.  A JSON value is [t, s, len, hex]: its JavaScript type, *)
(* the text express-validator's toString() gives for it (kept literally    *)
(* where the code compares it, a placeholder for long free text), the      *)
(* number of characters of that text, and whether all of them are hex      *)
(* digits.                                                                 *)
(***************************************************************************)
Val(t, s, len, hex) == [t |-> t, s |-> s, len |-> len, hex |-> hex]

Undefined == Val("undefined", "", 0, FALSE)

Text(len) == Val("string", "text", len, FALSE)

Word(s, len) == Val("string", s, len, FALSE)

\* How far around each length limit the request strings are drawn.
Margin == 1

NameMin == 2
NameMax == 100
DescriptionMax == 500
MongoIdLen == 24

Near(n) == {k \in (n - Margin)..(n + Margin) : k >= 0}

NameValues ==
    {Undefined, Val("number", "12", 2, FALSE)}
        \cup {Text(n) : n \in Near(NameMin) \cup Near(NameMax) \cup {0}}

TypeValues ==
    {Undefined, Val("number", "7", 1, FALSE), Word("product", 7),
     Word("blog", 4), Word("page", 4)}

DescriptionValues ==
    {Undefined, Val("boolean", "true", 4, FALSE)}
        \cup {Text(n) : n \in Near(DescriptionMax)}

IdText ==
    <<"64a000000000000000000001", "64a000000000000000000002",
      "64a000000000000000000003", "64a000000000000000000004">>

MaxCategories == 2

CategoryIds == 1..MaxCategories

IdValue(i) == Val("string", IdText[i], MongoIdLen, TRUE)

IdValues == {IdValue(i) : i \in CategoryIds} \cup {Val("string", "abc", 3, TRUE)}

ParentValues == {Undefined, IdValue(1), Word("none", 4)}

IsActiveValues ==
    {Undefined, Val("boolean", "true", 4, FALSE), Val("number", "0", 1, FALSE),
     Word("1", 1), Word("yes", 3)}

Body(name, type, description, parent, isActive) ==
    [name |-> name, type |-> type, description |-> description,
     parent |-> parent, isActive |-> isActive]

EmptyBody == Body(Undefined, Undefined, Undefined, Undefined, Undefined)

\* USER_ROLES and the identity authMiddleware puts on the request.
ADMIN == "admin"
SUPER_ADMIN == "super-admin"
Identities == {"anonymous", "user", ADMIN, SUPER_ADMIN}

(***************************************************************************)
(* express-validator checks.                                               *)
(***************************************************************************)
Falsy(v) ==
    \/ v.t \in {"undefined", "null"}
    \/ v.t = "string" /\ v.len = 0
    \/ v.t = "number" /\ v.s = "0"
    \/ v.t = "boolean" /\ v.s = "false"

Exists(msg) == [k |-> "exists", msg |-> msg, min |-> 0, max |-> 0, in |-> {}]
IsString(msg) == [k |-> "isString", msg |-> msg, min |-> 0, max |-> 0, in |-> {}]
IsLength(min, max, msg) ==
    [k |-> "isLength", msg |-> msg, min |-> min, max |-> max, in |-> {}]
IsIn(set, msg) == [k |-> "isIn", msg |-> msg, min |-> 0, max |-> 0, in |-> set]
IsMongoId(msg) == [k |-> "isMongoId", msg |-> msg, min |-> 0, max |-> 0, in |-> {}]
IsBoolean(msg) == [k |-> "isBoolean", msg |-> msg, min |-> 0, max |-> 0, in |-> {}]

Passes(check, v) ==
    CASE check.k = "exists" -> ~Falsy(v)
      [] check.k = "isString" -> v.t = "string"
      [] check.k = "isLength" -> check.min <= v.len /\ v.len <= check.max
      [] check.k = "isIn" -> v.s \in check.in
      [] check.k = "isMongoId" -> v.len = MongoIdLen /\ v.hex
      [] check.k = "isBoolean" -> v.s \in {"true", "false", "1", "0"}

\* One chain: body(field) or param(field), .optional() or not, its checks.
Chain(field, optional, checks) ==
    [field |-> field, optional |-> optional, checks |-> checks]

\* The errors one chain records for value v: every failing check, no bail.
ChainErrors(chain, v) ==
    IF chain.optional /\ v.t = "undefined"
    THEN {}
    ELSE {<<chain.field, chain.checks[i].msg>> :
            i \in {j \in 1..Len(chain.checks) : ~Passes(chain.checks[j], v)}}

\* The creation rules with an upper name limit that is never reached.
createCategoryValidationNoNameMax ==
    <<Chain("name", FALSE,
            <<Exists("Category name is required"),
              IsString("Category name must be a string"),
              IsLength(NameMin, NameMax + 1,
                       "Category name must be between 2 and 100 characters")>>),
      Chain("type", FALSE,
            <<Exists("Type is required"),
              IsString("Type must be a string"),
              IsIn({"product", "blog"}, "Type must be either product or blog")>>),
      Chain("description", TRUE,
            <<IsString("Description must be a string"),
              IsLength(0, DescriptionMax,
                       "Description cannot exceed 500 characters")>>),
      Chain("parent", TRUE,
            <<IsMongoId("Parent must be a valid category ID")>>)>>

createCategoryValidation ==
    <<Chain("name", FALSE,
            <<Exists("Category name is required"),
              IsString("Category name must be a string"),
              IsLength(NameMin, NameMax,
                       "Category name must be between 2 and 100 characters")>>),
      Chain("type", FALSE,
            <<Exists("Type is required"),
              IsString("Type must be a string"),
              IsIn({"product", "blog"}, "Type must be either product or blog")>>),
      Chain("description", TRUE,
            <<IsString("Description must be a string"),
              IsLength(0, DescriptionMax,
                       "Description cannot exceed 500 characters")>>),
      Chain("parent", TRUE,
            <<IsMongoId("Parent must be a valid category ID")>>)>>

\* The update rules with the creation rule for name: name is required.
updateCategoryValidationNameRequired ==
    <<Chain("name", FALSE,
            <<Exists("Category name is required"),
              IsString("Category name must be a string"),
              IsLength(NameMin, NameMax,
                       "Category name must be between 2 and 100 characters")>>),
      Chain("type", TRUE,
            <<IsString("Type must be a string"),
              IsIn({"product", "blog"}, "Type must be either product or blog")>>),
      Chain("description", TRUE,
            <<IsString("Description must be a string"),
              IsLength(0, DescriptionMax,
                       "Description cannot exceed 500 characters")>>),
      Chain("parent", TRUE,
            <<IsMongoId("Parent must be a valid category ID")>>),
      Chain("isActive", TRUE,
            <<IsBoolean("isActive must be a boolean value")>>)>>

updateCategoryValidation ==
    <<Chain("name", TRUE,
            <<IsString("Category name must be a string"),
              IsLength(NameMin, NameMax,
                       "Category name must be between 2 and 100 characters")>>),
      Chain("type", TRUE,
            <<IsString("Type must be a string"),
              IsIn({"product", "blog"}, "Type must be either product or blog")>>),
      Chain("description", TRUE,
            <<IsString("Description must be a string"),
              IsLength(0, DescriptionMax,
                       "Description cannot exceed 500 characters")>>),
      Chain("parent", TRUE,
            <<IsMongoId("Parent must be a valid category ID")>>),
      Chain("isActive", TRUE,
            <<IsBoolean("isActive must be a boolean value")>>)>>

paramIdValidation ==
    <<Chain("id", FALSE, <<IsMongoId("Invalid category ID")>>)>>

\* The fields a chain list reads: the body's, and the :id parameter.
Fields(req) == [f \in {"name", "type", "description", "parent", "isActive", "id"} |->
                  IF f = "id" THEN req.id ELSE req.body[f]]

RunChains(chains, req) ==
    UNION {ChainErrors(chains[i], Fields(req)[chains[i].field]) : i \in 1..Len(chains)}

(***************************************************************************)
(* The routing table of the category router: each route's handlers, in     *)
(* the order they are registered.                                          *)
(***************************************************************************)
GetAllRoute == <<"getAllCategories">>

GetByIdRoute == <<"paramId", "validateMiddleware", "getCategoryById">>

\* POST / without its role gate.
PostRouteWithoutAdminGate ==
    <<"authMiddleware", "createCategoryValidation", "validateMiddleware",
      "createCategory">>

PostRoute ==
    <<"authMiddleware", "adminMiddleware", "createCategoryValidation",
      "validateMiddleware", "createCategory">>

\* PUT /:id with the validation stages registered ahead of the gates.
PutRouteValidationFirst ==
    <<"paramId", "updateCategoryValidation", "validateMiddleware",
      "authMiddleware", "adminMiddleware", "updateCategory">>

PutRoute ==
    <<"authMiddleware", "adminMiddleware", "paramId", "updateCategoryValidation",
      "validateMiddleware", "updateCategory">>

DeleteRoute ==
    <<"authMiddleware", "adminMiddleware", "paramId", "validateMiddleware",
      "deleteCategory">>

Route(req) ==
    CASE req.method = "GET" /\ req.id = Undefined -> GetAllRoute
      [] req.method = "GET" /\ req.id # Undefined -> GetByIdRoute
      [] req.method = "POST" -> PostRoute
      [] req.method = "PUT" -> PutRoute
      [] req.method = "DELETE" -> DeleteRoute

AdminRoles == {ADMIN, SUPER_ADMIN}

Request(method, id, who, body) ==
    [method |-> method, id |-> id, who |-> who, body |-> body]

NoRequest == Request("NONE", Undefined, "anonymous", EmptyBody)

NoResponse == [status |-> 0, errors |-> {}]

Stage == IF cpc = 0 THEN "idle" ELSE Route(creq)[cpc]

\* next(): hand the request to the route's next handler.
Pass ==
    /\ cpc' = cpc + 1
    /\ cran' = Append(cran, Stage)

\* res.status(..).json(..): the request ends here.
Respond(status, errors) ==
    /\ cres' = [status |-> status, errors |-> errors]
    /\ cpc' = 0
    /\ cran' = Append(cran, Stage)

Receive ==
    /\ cpc = 0
    /\ creq = NoRequest
    /\ \E w \in Identities :
        \/ \E i \in IdValues \cup {Undefined} : creq' = Request("GET", i, w, EmptyBody)
        \/ /\ Cardinality(categories) < MaxCategories
           /\ \E n \in NameValues, t \in TypeValues, d \in DescriptionValues,
                 p \in ParentValues, a \in IsActiveValues :
                creq' = Request("POST", Undefined, w, Body(n, t, d, p, a))
        \/ \E i \in IdValues, n \in NameValues, t \in TypeValues,
              d \in DescriptionValues, p \in ParentValues, a \in IsActiveValues :
                creq' = Request("PUT", i, w, Body(n, t, d, p, a))
        \/ \E i \in IdValues : creq' = Request("DELETE", i, w, EmptyBody)
    /\ cpc' = 1
    /\ cran' = <<>>
    /\ cerrs' = {}
    /\ cres' = NoResponse
    /\ UNCHANGED categories

AuthMiddleware ==
    /\ Stage = "authMiddleware"
    /\ IF creq.who = "anonymous"
       THEN Respond(401, {})
       ELSE Pass /\ UNCHANGED cres
    /\ UNCHANGED <<creq, cerrs, categories>>

AdminMiddleware ==
    /\ Stage = "adminMiddleware"
    /\ IF creq.who \in AdminRoles
       THEN Pass /\ UNCHANGED cres
       ELSE Respond(403, {})
    /\ UNCHANGED <<creq, cerrs, categories>>

StageChains(stage) ==
    CASE stage = "createCategoryValidation" -> createCategoryValidation
      [] stage = "updateCategoryValidation" -> updateCategoryValidation
      [] stage = "paramId" -> paramIdValidation

\* A validation chain records its errors on the request and calls next().
ValidationChains ==
    /\ Stage \in {"createCategoryValidation", "updateCategoryValidation", "paramId"}
    /\ cerrs' = cerrs \cup RunChains(StageChains(Stage), creq)
    /\ Pass
    /\ UNCHANGED <<creq, cres, categories>>

ValidateMiddleware ==
    /\ Stage = "validateMiddleware"
    /\ IF cerrs = {}
       THEN Pass /\ UNCHANGED cres
       ELSE Respond(400, cerrs)
    /\ UNCHANGED <<creq, cerrs, categories>>

IdOf(v) == {i \in CategoryIds : IdValue(i) = v}

CreateCategory ==
    /\ Stage = "createCategory"
    /\ \E i \in CategoryIds \ categories : categories' = categories \cup {i}
    /\ Respond(201, {})
    /\ UNCHANGED <<creq, cerrs>>

UpdateCategory ==
    /\ Stage = "updateCategory"
    /\ IF IdOf(creq.id) \subseteq categories /\ IdOf(creq.id) # {}
       THEN Respond(200, {})
       ELSE Respond(404, {})
    /\ UNCHANGED <<creq, cerrs, categories>>

DeleteCategory ==
    /\ Stage = "deleteCategory"
    /\ IF IdOf(creq.id) \subseteq categories /\ IdOf(creq.id) # {}
       THEN Respond(200, {}) /\ categories' = categories \ IdOf(creq.id)
       ELSE Respond(404, {}) /\ UNCHANGED categories
    /\ UNCHANGED <<creq, cerrs>>

GetAllCategories ==
    /\ Stage = "getAllCategories"
    /\ Respond(200, {})
    /\ UNCHANGED <<creq, cerrs, categories>>

GetCategoryById ==
    /\ Stage = "getCategoryById"
    /\ IF IdOf(creq.id) \subseteq categories /\ IdOf(creq.id) # {}
       THEN Respond(200, {})
       ELSE Respond(404, {})
    /\ UNCHANGED <<creq, cerrs, categories>>

\* The response is on the wire; the request and response objects are dropped.
Finish ==
    /\ cpc = 0
    /\ creq # NoRequest
    /\ creq' = NoRequest
    /\ cran' = <<>>
    /\ cerrs' = {}
    /\ cres' = NoResponse
    /\ UNCHANGED <<cpc, categories>>


(***************************************************************************)
(* JavaScript numbers: IEEE-754 binary64 with round-to-nearest-even.       *)
(* A natural number is its bits, least significant first, without leading  *)
(* zeros.  A double is [sign, m, e] = sign * m * 2^e with m of exactly     *)
(* MantissaBits bits (zero: sign 0).  Exponent overflow, subnormals, NaN   *)
(* and infinities are beyond every value used here.                        *)
(***************************************************************************)
MantissaBits == 53

Max(S) == CHOOSE i \in S : \A j \in S : j <= i

BTrim(b) == SubSeq(b, 1, Max({0} \cup {i \in 1..Len(b) : b[i] = 1}))

\* The bits of a natural number below 2^24.
BitsOf(n) == BTrim([i \in 1..24 |-> (n \div 2^(i - 1)) % 2])

Bit(b, i) == IF i <= Len(b) THEN b[i] ELSE 0

\* Bits lo..hi of b * k + carry (low half first), and the carry out of them.
RECURSIVE BMulRange(_, _, _, _, _)
BMulRange(b, lo, hi, carry, k) ==
    IF lo > hi THEN [bits |-> <<>>, carry |-> carry]
    ELSE IF lo = hi
    THEN LET t == b[lo] * k + carry
         IN  [bits |-> <<t % 2>>, carry |-> t \div 2]
    ELSE LET mid == (lo + hi) \div 2
             low == BMulRange(b, lo, mid, carry, k)
             high == BMulRange(b, mid + 1, hi, low.carry, k)
         IN  [bits |-> low.bits \o high.bits, carry |-> high.carry]

BMulSmall(b, k) ==
    LET p == BMulRange(b, 1, Len(b), 0, k) IN BTrim(p.bits \o BitsOf(p.carry))

\* Long division of bits hi..lo of b by k (high half first), rem carried in.
\* A remainder is always below k: the test on high.r only makes the upper half
\* be computed before the lower half that depends on it.
RECURSIVE BDivRange(_, _, _, _, _)
BDivRange(b, lo, hi, rem, k) ==
    IF lo > hi THEN [q |-> <<>>, r |-> rem]
    ELSE IF lo = hi
    THEN LET t == rem * 2 + b[lo]
         IN  [q |-> <<t \div k>>, r |-> t % k]
    ELSE LET mid == (lo + hi) \div 2
             high == BDivRange(b, mid + 1, hi, rem, k)
         IN  IF high.r >= k THEN high
             ELSE LET low == BDivRange(b, lo, mid, high.r, k)
                  IN  [q |-> low.q \o high.q, r |-> low.r]

BDivSmall(b, k) ==
    LET d == BDivRange(b, 1, Len(b), 0, k) IN [q |-> BTrim(d.q), r |-> d.r]

BShl(b, n) == IF b = <<>> THEN b ELSE [i \in 1..n |-> 0] \o b

BGreater(a, b) ==
    IF Len(a) # Len(b) THEN Len(a) > Len(b)
    ELSE LET D == {i \in 1..Len(a) : a[i] # b[i]}
         IN  D # {} /\ a[Max(D)] > b[Max(D)]

\* Bits lo..hi of a - b - borrow (low half first), and the borrow out of them.
RECURSIVE BSubRange(_, _, _, _, _)
BSubRange(a, b, lo, hi, borrow) ==
    IF lo > hi THEN [bits |-> <<>>, borrow |-> borrow]
    ELSE IF lo = hi
    THEN LET t == a[lo] - Bit(b, lo) - borrow
         IN  [bits |-> <<(t + 2) % 2>>, borrow |-> IF t < 0 THEN 1 ELSE 0]
    ELSE LET mid == (lo + hi) \div 2
             low == BSubRange(a, b, lo, mid, borrow)
             high == BSubRange(a, b, mid + 1, hi, low.borrow)
         IN  [bits |-> low.bits \o high.bits, borrow |-> high.borrow]

\* a - b for a >= b.
BSub(a, b) == BTrim(BSubRange(a, b, 1, Len(a), 0).bits)

BIncr(b) ==
    LET z == CHOOSE i \in 1..(Len(b) + 1) :
                /\ Bit(b, i) = 0
                /\ \A j \in 1..(i - 1) : b[j] = 1
    IN  [i \in 1..Max({Len(b), z}) |->
            IF i < z THEN 0 ELSE IF i = z THEN 1 ELSE b[i]]

\* The nearest MantissaBits-bit m and shift sh with m * 2^sh = n (+ a positive
\* fraction below one unit of n when sticky), ties to even; n # 0.
Round(n, sticky) ==
    LET L == Len(n)
        s == L - MantissaBits
    IN  IF s <= 0
        THEN [m |-> BShl(n, -s), sh |-> s]
        ELSE LET q == SubSeq(n, s + 1, L)
                 half == n[s] = 1
                 rest == sticky \/ \E i \in 1..(s - 1) : n[i] = 1
                 up == half /\ (rest \/ q[1] = 1)
                 r == IF up THEN BIncr(q) ELSE q
             IN  IF Len(r) > MantissaBits
                 THEN [m |-> Tail(r), sh |-> s + 1]
                 ELSE [m |-> r, sh |-> s]

Zero == [sign |-> 0, m |-> <<>>, e |-> 0]

Neg(x) == [x EXCEPT !.sign = -x.sign]

\* The double of a small integer (exact).
FromInt(k) ==
    IF k = 0 THEN Zero
    ELSE LET r == Round(BitsOf(IF k < 0 THEN -k ELSE k), FALSE)
         IN  [sign |-> IF k < 0 THEN -1 ELSE 1, m |-> r.m, e |-> r.sh]

\* x * k in binary64, k a small natural number (exactly representable).
MulSmall(x, k) ==
    IF x.sign = 0 \/ k = 0 THEN Zero
    ELSE LET r == Round(BMulSmall(x.m, k), FALSE)
         IN  [sign |-> x.sign, m |-> r.m, e |-> x.e + r.sh]

\* Extra quotient bits kept before rounding: 2^GuardBits exceeds 4 * k for
\* every divisor k used (100 and 1000).
GuardBits == 12

\* x / k in binary64, 0 < k <= 1000.
DivSmall(x, k) ==
    IF x.sign = 0 THEN Zero
    ELSE LET d == BDivSmall(BShl(x.m, GuardBits), k)
             r == Round(d.q, d.r # 0)
         IN  [sign |-> x.sign, m |-> r.m, e |-> x.e - GuardBits + r.sh]

Min(a, b) == IF a < b THEN a ELSE b

\* x - y in binary64 for x >= 0 and y >= 0.
Sub(x, y) ==
    IF y.sign = 0 THEN x
    ELSE IF x.sign = 0 THEN Neg(y)
    ELSE LET e0 == Min(x.e, y.e)
             a == BShl(x.m, x.e - e0)
             b == BShl(y.m, y.e - e0)
         IN  IF a = b THEN Zero
             ELSE LET n == IF BGreater(a, b) THEN BSub(a, b) ELSE BSub(b, a)
                      r == Round(n, FALSE)
                  IN  [sign |-> IF BGreater(a, b) THEN 1 ELSE -1,
                       m |-> r.m, e |-> e0 + r.sh]

\* x <= y for x >= 0 and y >= 0.
Leq(x, y) == Sub(x, y).sign <= 0

\* The number a JSON decimal literal with three fractional digits parses to:
\* the double nearest to milli / 1000.
ParseMilli(milli) == DivSmall(FromInt(milli), 1000)

(***************************************************************************)
(* Strings the Product model reads character by character are sequences    *)
(* of one-character strings.                                               *)
(***************************************************************************)
Str16(a, b, c, d, e, f, g, h, i, j, k, l, m, n, o, p) ==
    <<a, b, c, d, e, f, g, h, i, j, k, l, m, n, o, p>>

ColdBrewCoffee ==
    Str16("C", "o", "l", "d", " ", "B", "r", "e", "w", " ", "C", "o", "f", "f", "e", "e")

LowerLetters == {"a", "b", "c", "d", "e", "f", "l", "n", "o", "r", "t", "w"}

UpperLetters == {"B", "C", "T"}

ToLower(c) ==
    CASE c = "B" -> "b"
      [] c = "C" -> "c"
      [] c = "T" -> "t"
      [] OTHER -> c

IsSpace(c) == c = " "

\* String.prototype.trim
Trim(str) ==
    LET keep == {i \in 1..Len(str) : ~IsSpace(str[i])}
    IN  IF keep = {} THEN <<>>
        ELSE SubSeq(str, CHOOSE i \in keep : \A j \in keep : i <= j, Max(keep))

ToLowerCase(str) == [i \in 1..Len(str) |-> ToLower(str[i])]

\* slugify's charMap, for the characters of the model's alphabet.
CharMap(c) == IF c = "&" THEN <<"a", "n", "d">> ELSE <<c>>

\* Characters slugify's default `remove` pattern deletes: /[^\w\s$*_+~.()'"!\-:@]+/g
Removed(c) ==
    c \notin LowerLetters \cup UpperLetters \cup {" ", "!", "-", "$", "*", "_", "+", "~", ".", "(", ")", ":", "@"}

RECURSIVE MapChars(_, _)
MapChars(str, i) ==
    IF i > Len(str) THEN <<>>
    ELSE LET mapped == CharMap(str[i])
             append == IF mapped = <<"-">> THEN <<" ">> ELSE mapped
         IN  SelectSeq(append, LAMBDA c : ~Removed(c)) \o MapChars(str, i + 1)

\* str.replace(/\s+/g, replacement)
ReplaceSpaceRuns(str, replacement) ==
    LET keep == {i \in 1..Len(str) : ~(IsSpace(str[i]) /\ i > 1 /\ IsSpace(str[i - 1]))}
        at(p) == CHOOSE i \in keep : Cardinality({j \in keep : j <= i}) = p
    IN  [p \in 1..Cardinality(keep) |->
            IF IsSpace(str[at(p)]) THEN replacement ELSE str[at(p)]]

\* slugify(string, { lower: true, strict: true })
Slugify(str) ==
    LET mapped == MapChars(str, 1)
        strict == SelectSeq(mapped,
                    LAMBDA c : c \in LowerLetters \cup UpperLetters \/ IsSpace(c))
    IN  ToLowerCase(ReplaceSpaceRuns(Trim(strict), "-"))

(***************************************************************************)
(* ProductSchema.                                                          *)
(***************************************************************************)
TitleMin == 3
TitleMax == 100
SlugMax == 100
DiscountMin == 0
DiscountMax == 100
PriceMin == 0

\* title: { trim: true }
TitleSetter(str) == Trim(str)

\* slug: { trim: true, lowercase: true }
SlugSetter(str) == ToLowerCase(Trim(str))

\* The custom validator: val.length > 0, given val.length.
arrayLimitAlwaysTrue(length) == TRUE

arrayLimit(length) == length > 0

\* An image is [url, len, isImageUrl]: the text, its length, and whether it
\* matches /^https?:\/\/.+\.(jpg|jpeg|png|gif)$/i.
Image(url, len, ok) == [url |-> url, len |-> len, isImageUrl |-> ok]

GoodImage == Image("https://cdn.test/a.png", 22, TRUE)

ImageValues == {GoodImage, Image("", 0, FALSE), Image("a.bmp", 5, FALSE)}

\* Mongoose's match validator lets the empty string through.
MatchPasses(img) == img.len = 0 \/ img.isImageUrl

Variant(size, price) == [size |-> size, price |-> price, stock |-> 0]

\* Prices as written in the request, in thousandths.
PriceMillis == {-1000, 0, 7, 19990}

\* discountPercentage values: whole numbers, exact as doubles.
DiscountValues == {-5, 0, 15, 100, 150}

MaxVariants == 2
MaxImages == 2

SeqsUpTo(S, n) == UNION {[1..k -> S] : k \in 0..n}

\* The doubles the request's prices parse to.
Prices == [milli \in PriceMillis |-> ParseMilli(milli)]

VariantLists ==
    {[i \in 1..Len(ps) |-> Variant(IF i = 1 THEN "250ml" ELSE "1L", Prices[ps[i]])] :
        ps \in SeqsUpTo(PriceMillis, MaxVariants)}

ImageLists == SeqsUpTo(ImageValues, MaxImages)

DefaultVariants == <<Variant("250ml", Prices[19990])>>

DefaultImages == <<GoodImage>>

Str3(a, b, c) == <<a, b, c>>

Titles ==
    {ColdBrewCoffee, Str3("!", "!", "!"),
     <<" ", "B", "&", "B", " ", " ", "t", "-", "e", "a", "!">>}

\* Slugs a caller may pass explicitly; <<>> is "no slug".
GivenSlugs == {<<>>, Str3("T", "e", "a")}

MaxDocs == 2

DocIds == 1..MaxDocs

CatalogDocs == {1}

Doc(title, slug, discount, variants, images) ==
    [title |-> TitleSetter(title), slug |-> SlugSetter(slug),
     discountPercentage |-> discount, variants |-> variants, images |-> images,
     isNew |-> TRUE, pc |-> "idle", outcome |-> "none"]

NoDoc == [Doc(<<>>, <<>>, 0, <<>>, <<>>) EXCEPT !.pc = "absent"]

Stored(doc) ==
    [stored |-> TRUE, title |-> doc.title, slug |-> doc.slug,
     discountPercentage |-> doc.discountPercentage, variants |-> doc.variants,
     images |-> doc.images]

NotStored == [Stored(NoDoc) EXCEPT !.stored = FALSE]

PathIf(path, failed) == IF failed THEN {path} ELSE {}

\* The paths of the document that fail schema validation.
ValidationErrors(doc) ==
    PathIf("title", Len(doc.title) = 0 \/ Len(doc.title) < TitleMin
                        \/ Len(doc.title) > TitleMax)
    \cup PathIf("slug", Len(doc.slug) > SlugMax)
    \cup PathIf("discountPercentage", doc.discountPercentage < DiscountMin
                                        \/ doc.discountPercentage > DiscountMax)
    \cup PathIf("variants", ~arrayLimit(Len(doc.variants)))
    \cup PathIf("variants.price",
                \E i \in 1..Len(doc.variants) : doc.variants[i].price.sign < PriceMin)
    \cup PathIf("images",
                \E i \in 1..Len(doc.images) :
                    ~MatchPasses(doc.images[i]) \/ ~arrayLimit(doc.images[i].len))

\* The unique index on slug, without the uniqueness.
NoUniqueIndex(d, slug) == FALSE

\* slug: { unique: true }: the write of document d collides with another
\* stored Product's slug.
UniqueIndexViolated(d, slug) ==
    \E o \in DocIds \ {d} : db[o].stored /\ db[o].slug = slug

\* ProductSchema.pre('save'): the slug the hook leaves on the document.
PreSaveSlug(doc) ==
    IF doc.slug = <<>> THEN SlugSetter(Slugify(doc.title)) ELSE doc.slug

\* ProductSchema.virtual('discountedPrices')
discountedPrices(doc) ==
    [i \in 1..Len(doc.variants) |->
        [size |-> doc.variants[i].size,
         discountedPrice |->
            Sub(doc.variants[i].price,
                DivSmall(MulSmall(doc.variants[i].price, doc.discountPercentage), 100))]]

\* new Product({ title, slug }) with valid variants, images and discount.
NewTitled(d) ==
    /\ docs[d].pc = "absent"
    /\ \E t \in Titles, g \in GivenSlugs :
        docs' = [docs EXCEPT ![d] = Doc(t, g, 15, DefaultVariants, DefaultImages)]
    /\ UNCHANGED db

\* new Product({ variants, images, discountPercentage }) with a valid title.
NewPriced(d) ==
    /\ docs[d].pc = "absent"
    /\ \E vs \in VariantLists, is \in ImageLists, dp \in DiscountValues :
        docs' = [docs EXCEPT ![d] = Doc(ColdBrewCoffee, <<>>, dp, vs, is)]
    /\ UNCHANGED db

\* doc.title = t
SetTitle(d) ==
    /\ docs[d].pc = "idle"
    /\ \E t \in Titles :
        /\ TitleSetter(t) # docs[d].title
        /\ docs' = [docs EXCEPT ![d].title = TitleSetter(t)]
    /\ UNCHANGED db

\* doc.save(), first step: schema validation.
Validate(d) ==
    /\ docs[d].pc = "idle"
    /\ docs' = [docs EXCEPT ![d] =
            IF ValidationErrors(docs[d]) = {}
            THEN [@ EXCEPT !.pc = "validated", !.outcome = "none"]
            ELSE [@ EXCEPT !.outcome = "ValidationError"]]
    /\ UNCHANGED db

\* doc.save(), second step: the pre('save') hook.
PreSave(d) ==
    /\ docs[d].pc = "validated"
    /\ docs' = [docs EXCEPT ![d] =
            [@ EXCEPT !.slug = PreSaveSlug(docs[d]), !.pc = "hooked"]]
    /\ UNCHANGED db

\* doc.save(), last step: the insert or update, atomic in the storage layer.
Write(d) ==
    /\ docs[d].pc = "hooked"
    /\ IF UniqueIndexViolated(d, docs[d].slug)
       THEN /\ docs' = [docs EXCEPT ![d] =
                    [@ EXCEPT !.pc = "idle", !.outcome = "DuplicateKey"]]
            /\ UNCHANGED db
       ELSE /\ docs' = [docs EXCEPT ![d] =
                    [@ EXCEPT !.pc = "idle", !.outcome = "saved", !.isNew = FALSE]]
            /\ db' = [db EXCEPT ![d] = Stored(docs[d])]

(***************************************************************************)
(* The application stack of app.js.  A path is its sequence of segments;   *)
(* a layer is a middleware mounted on a path prefix ("use", "router"), a   *)
(* route matching one method and path exactly ("route"), or an error       *)
(* handler ("error").                                                      *)
(***************************************************************************)
Layer(name, kind, method, path) ==
    [name |-> name, kind |-> kind, method |-> method, path |-> path]

Use(name) == Layer(name, "use", "*", <<>>)

Router(mount) == Layer(mount, "router", "*", <<"api", mount>>)

\* The stack with the catch-all registered ahead of the root and health routes.
AppStackNotFoundEarly ==
    <<Use("helmet"), Use("cors"), Use("json"), Use("urlencoded"),
      Layer("apiLimiter", "use", "*", <<"api">>),
      Use("morgan"), Use("static"), Use("session"),
      Use("passport.initialize"), Use("passport.session"),
      Layer("upload", "route", "POST", <<"api", "upload">>),
      Router("auth"), Router("users"), Router("products"), Router("orders"),
      Router("blogs"), Router("faqs"), Router("reviews"), Router("coupons"),
      Router("settings"), Router("webhooks"), Router("categories"),
      Router("reports"), Router("contact"), Router("cart"),
      Router("email-list"), Router("chatbot"), Router("tags"),
      Use("notFound"),
      Layer("root", "route", "GET", <<>>),
      Layer("health", "route", "GET", <<"api", "health">>),
      Layer("errorMiddleware", "error", "*", <<>>)>>

AppStack ==
    <<Use("helmet"), Use("cors"), Use("json"), Use("urlencoded"),
      Layer("apiLimiter", "use", "*", <<"api">>),
      Use("morgan"), Use("static"), Use("session"),
      Use("passport.initialize"), Use("passport.session"),
      Layer("upload", "route", "POST", <<"api", "upload">>),
      Router("auth"), Router("users"), Router("products"), Router("orders"),
      Router("blogs"), Router("faqs"), Router("reviews"), Router("coupons"),
      Router("settings"), Router("webhooks"), Router("categories"),
      Router("reports"), Router("contact"), Router("cart"),
      Router("email-list"), Router("chatbot"), Router("tags"),
      Layer("root", "route", "GET", <<>>),
      Layer("health", "route", "GET", <<"api", "health">>),
      Use("notFound"),
      Layer("errorMiddleware", "error", "*", <<>>)>>

\* Files under public/.
StaticFiles == {<<"ServerRunning.html">>}

AppPaths ==
    {<<>>, <<"api", "health">>, <<"api", "upload">>, <<"api", "categories">>,
     <<"api", "tags">>, <<"api", "nothing">>, <<"nothing">>,
     <<"ServerRunning.html">>}

AppRequest(method, path, origin, json, file) ==
    [method |-> method, path |-> path, origin |-> origin, json |-> json,
     file |-> file]

\* origin: no Origin header, one of allowedOrigins, or another one.
\* json: a body express.json() parses, or one it cannot.  file: req.file is set.
AppRequests ==
    {AppRequest(m, p, o, j, f) : m \in {"GET", "POST"}, p \in AppPaths,
        o \in {"none", "allowed", "other"}, j \in {"ok", "malformed"},
        f \in BOOLEAN}

NoAppRequest == AppRequest("NONE", <<>>, "none", "ok", FALSE)

NoAppResponse == [status |-> 0, by |-> "none", success |-> FALSE, message |-> ""]

IsPrefix(pre, path) ==
    Len(pre) <= Len(path) /\ SubSeq(path, 1, Len(pre)) = pre

\* Express calls a layer when its path and method match and it is an error
\* handler exactly when an error is pending.
Applies(layer, req, err) ==
    /\ IF layer.kind = "route" THEN req.path = layer.path
                               ELSE IsPrefix(layer.path, req.path)
    /\ layer.method \in {"*", req.method}
    /\ (layer.kind = "error") <=> (err # "none")

AtLayer == AppStack[apc]

Running ==
    /\ apc \in 1..Len(AppStack)
    /\ Applies(AtLayer, areq, aerr)

\* next()
AppNext ==
    /\ apc' = apc + 1
    /\ aran' = Append(aran, AtLayer.name)
    /\ UNCHANGED <<areq, aerr, ares>>

\* next(err)
AppNextError ==
    /\ apc' = apc + 1
    /\ aerr' = AtLayer.name
    /\ aran' = Append(aran, AtLayer.name)
    /\ UNCHANGED <<areq, ares>>

\* res.status(status).json({ success, message }) and the like.
AppRespond(status, success, message) ==
    /\ ares' = [status |-> status, by |-> AtLayer.name, success |-> success,
                message |-> message]
    /\ apc' = 0
    /\ aran' = Append(aran, AtLayer.name)
    /\ UNCHANGED <<areq, aerr>>

AppReceive ==
    /\ apc = 0
    /\ areq = NoAppRequest
    /\ \E r \in AppRequests : areq' = r
    /\ apc' = 1
    /\ UNCHANGED <<aerr, aran, ares>>

\* The layer at hand does not apply to the request: Express moves on.
SkipLayer ==
    /\ apc \in 1..Len(AppStack)
    /\ ~Applies(AtLayer, areq, aerr)
    /\ apc' = apc + 1
    /\ UNCHANGED <<areq, aerr, aran, ares>>

\* helmet, urlencoded, morgan, session, passport: on to the next layer.
PassThrough ==
    /\ Running
    /\ AtLayer.name \in {"helmet", "urlencoded", "morgan", "session",
                         "passport.initialize", "passport.session"}
    /\ AppNext

CorsOrigin ==
    /\ Running
    /\ AtLayer.name = "cors"
    /\ IF areq.origin \in {"none", "allowed"} THEN AppNext ELSE AppNextError

JsonBody ==
    /\ Running
    /\ AtLayer.name = "json"
    /\ IF areq.json = "ok" THEN AppNext ELSE AppNextError

\* express-rate-limit: under the limit, or answering 429 itself.
ApiLimiter ==
    /\ Running
    /\ AtLayer.name = "apiLimiter"
    /\ \/ AppNext
       \/ AppRespond(429, FALSE,
                     "Too many requests from this IP, please try again later.")

StaticFile ==
    /\ Running
    /\ AtLayer.name = "static"
    /\ IF areq.method = "GET" /\ areq.path \in StaticFiles
       THEN AppRespond(200, TRUE, "")
       ELSE AppNext

\* app.post("/api/upload"): multer or uploadImage fails, or the handler answers.
UploadRoute ==
    /\ Running
    /\ AtLayer.name = "upload"
    /\ \/ AppNextError
       \/ IF ~areq.file
          THEN AppRespond(400, FALSE, "No file uploaded.")
          ELSE AppRespond(200, TRUE, "")

\* A mounted router: one of its routes answers, none matches, or one fails.
RouterLayer ==
    /\ Running
    /\ AtLayer.kind = "router"
    /\ \/ AppRespond(200, TRUE, "")
       \/ AppNext
       \/ AppNextError

RootRoute ==
    /\ Running
    /\ AtLayer.name = "root"
    /\ AppRespond(200, TRUE, "")

HealthRoute ==
    /\ Running
    /\ AtLayer.name = "health"
    /\ AppRespond(200, TRUE, "API is healthy.")

NotFoundHandler ==
    /\ Running
    /\ AtLayer.name = "notFound"
    /\ AppRespond(404, FALSE, "Resource not found")

ErrorMiddleware ==
    /\ Running
    /\ AtLayer.name = "errorMiddleware"
    /\ AppRespond(500, FALSE, "Server Error")

\* The response is sent; the request is over.
AppFinish ==
    /\ apc = 0
    /\ areq # NoAppRequest
    /\ areq' = NoAppRequest
    /\ aerr' = "none"
    /\ aran' = <<>>
    /\ ares' = NoAppResponse
    /\ UNCHANGED apc

IdleApp ==
    /\ areq = NoAppRequest
    /\ apc = 0
    /\ aerr = "none"
    /\ aran = <<>>
    /\ ares = NoAppResponse

\* No category request is in flight and no category is stored.
IdleCategories ==
    /\ creq = NoRequest
    /\ cpc = 0
    /\ cran = <<>>
    /\ cerrs = {}
    /\ cres = NoResponse
    /\ categories = {}

\* No Product document is in memory and none is stored.
IdleProducts ==
    /\ docs = [d \in DocIds |-> NoDoc]
    /\ db = [d \in DocIds |-> NotStored]

Init == IdleCategories /\ IdleProducts /\ IdleApp

NextCategory ==
    \/ Receive /\ UNCHANGED <<prodVars, appVars>>
    \/ AuthMiddleware /\ UNCHANGED <<prodVars, appVars>>
    \/ AdminMiddleware /\ UNCHANGED <<prodVars, appVars>>
    \/ ValidationChains /\ UNCHANGED <<prodVars, appVars>>
    \/ ValidateMiddleware /\ UNCHANGED <<prodVars, appVars>>
    \/ CreateCategory /\ UNCHANGED <<prodVars, appVars>>
    \/ UpdateCategory /\ UNCHANGED <<prodVars, appVars>>
    \/ DeleteCategory /\ UNCHANGED <<prodVars, appVars>>
    \/ GetAllCategories /\ UNCHANGED <<prodVars, appVars>>
    \/ GetCategoryById /\ UNCHANGED <<prodVars, appVars>>
    \/ Finish /\ UNCHANGED <<prodVars, appVars>>

SpecCategory == Init /\ [][NextCategory]_vars

NextSlug ==
    \E d \in DocIds :
        \/ NewTitled(d) /\ UNCHANGED <<catVars, appVars>>
        \/ SetTitle(d) /\ UNCHANGED <<catVars, appVars>>
        \/ Validate(d) /\ UNCHANGED <<catVars, appVars>>
        \/ PreSave(d) /\ UNCHANGED <<catVars, appVars>>
        \/ Write(d) /\ UNCHANGED <<catVars, appVars>>

SpecSlug == Init /\ [][NextSlug]_vars

NextCatalog ==
    \E d \in CatalogDocs :
        \/ NewPriced(d) /\ UNCHANGED <<catVars, appVars>>
        \/ Validate(d) /\ UNCHANGED <<catVars, appVars>>
        \/ PreSave(d) /\ UNCHANGED <<catVars, appVars>>
        \/ Write(d) /\ UNCHANGED <<catVars, appVars>>

SpecCatalog == Init /\ [][NextCatalog]_vars

NextApp ==
    \/ AppReceive /\ UNCHANGED <<catVars, prodVars>>
    \/ SkipLayer /\ UNCHANGED <<catVars, prodVars>>
    \/ PassThrough /\ UNCHANGED <<catVars, prodVars>>
    \/ CorsOrigin /\ UNCHANGED <<catVars, prodVars>>
    \/ JsonBody /\ UNCHANGED <<catVars, prodVars>>
    \/ ApiLimiter /\ UNCHANGED <<catVars, prodVars>>
    \/ StaticFile /\ UNCHANGED <<catVars, prodVars>>
    \/ UploadRoute /\ UNCHANGED <<catVars, prodVars>>
    \/ RouterLayer /\ UNCHANGED <<catVars, prodVars>>
    \/ RootRoute /\ UNCHANGED <<catVars, prodVars>>
    \/ HealthRoute /\ UNCHANGED <<catVars, prodVars>>
    \/ NotFoundHandler /\ UNCHANGED <<catVars, prodVars>>
    \/ ErrorMiddleware /\ UNCHANGED <<catVars, prodVars>>
    \/ AppFinish /\ UNCHANGED <<catVars, prodVars>>

\* Express runs the stack to the end of the request.
SpecApp == Init /\ [][NextApp]_vars /\ WF_vars(NextApp)

(***************************************************************************)
(* Properties of the category router.                                      *)
(***************************************************************************)
Mutating == creq.method \in {"POST", "PUT", "DELETE"}

Controllers == {"createCategory", "updateCategory", "deleteCategory"}

ValidationStages ==
    {"paramId", "createCategoryValidation", "updateCategoryValidation",
     "validateMiddleware"}

Ran(stage) == \E i \in 1..Len(cran) : cran[i] = stage

\* Every run of a stage of `later` comes after a run of `stage`.
Before(stage, later) ==
    \A j \in 1..Len(cran) :
        cran[j] \in later => \E i \in 1..(j - 1) : cran[i] = stage

\* All the errors the validation chains of the request's route find.
RouteErrors(req) ==
    UNION {RunChains(StageChains(Route(req)[i]), req) :
            i \in {j \in 1..Len(Route(req)) :
                     Route(req)[j] \in ValidationStages \ {"validateMiddleware"}}}

C1_Gate ==
    /\ (Mutating /\ (Stage \in Controllers \/ \E c \in Controllers : Ran(c))) =>
            /\ creq.who # "anonymous"
            /\ creq.who \in {"admin", "super-admin"}
            /\ RouteErrors(creq) = {}
    /\ (creq.method = "POST" /\ creq.who \notin {"admin", "super-admin"}
            /\ cres.status # 0) =>
            /\ cres.status = (IF creq.who = "anonymous" THEN 401 ELSE 403)
            /\ ~Ran("createCategory")

C1_NoWrite ==
    (creq.method = "POST" /\ creq.who \notin {"admin", "super-admin"}) =>
        categories' = categories

\* C1: on POST /, PUT /:id and DELETE /:id the controller is reached only by an
\* authenticated identity whose role is admin or super-admin and whose request
\* passed every validation rule of the route; a non-admin POST ends with an
\* authorization rejection (401 without identity, 403 with one) and the stored
\* categories are left as they were.
C1_ControllerOnlyAfterGates == []C1_Gate /\ [][C1_NoWrite]_vars

\* A signed-in non-admin was refused on POST / while categories exist.
C1_Witness ==
    /\ creq.method = "POST"
    /\ creq.who = "user"
    /\ cres.status = 403
    /\ categories # {}

\* C2 as stated: on POST /, PUT /:id and DELETE /:id validation runs before the
\* identity and role checks: once authMiddleware or adminMiddleware has run, the
\* route's validation stages have run already.
C2_ValidationBeforeAuth ==
    Mutating =>
        /\ Before("validateMiddleware", {"authMiddleware", "adminMiddleware"})
        /\ Before("authMiddleware", Controllers)

\* C2 amended: on POST /, PUT /:id and DELETE /:id the chain runs authMiddleware,
\* then adminMiddleware, then the validation stages, then the controller: no
\* validation stage runs before both gates have, and the controller runs last,
\* after validateMiddleware.
C2_AuthBeforeValidation ==
    Mutating =>
        /\ Before("authMiddleware", {"adminMiddleware"})
        /\ Before("adminMiddleware", ValidationStages)
        /\ Before("validateMiddleware", Controllers)
        /\ \A i \in 1..Len(cran) : cran[i] \in Controllers => i = Len(cran)

\* A PUT went through its whole chain.
C2_Witness ==
    /\ creq.method = "PUT"
    /\ cran = <<"authMiddleware", "adminMiddleware", "paramId",
                "updateCategoryValidation", "validateMiddleware", "updateCategory">>

WellFormedId(v) == v.t = "string" /\ v.len = 24 /\ v.hex

Present(v) == v.t # "undefined"

CreateAcceptable(b) ==
    /\ Present(b.name) /\ b.name.t = "string" /\ b.name.len >= 2 /\ b.name.len <= 100
    /\ Present(b.type) /\ b.type.t = "string" /\ b.type.s \in {"product", "blog"}
    /\ Present(b.description) => b.description.t = "string" /\ b.description.len <= 500
    /\ Present(b.parent) => WellFormedId(b.parent)

NameErrors(errors) == {e \in errors : e[1] = "name"}

\* C3: createCategoryValidation accepts a creation payload exactly when name is a
\* string of 2 to 100 characters, type is 'product' or 'blog', description (if
\* present) is a string of at most 500 characters and parent (if present) is a
\* well-formed id; a payload whose name is missing, shorter than 2 or longer than
\* 100 characters gets a validation error on the name field and a 400 response.
C3_CreateValidation ==
    (creq.method = "POST" /\ Ran("createCategoryValidation")) =>
        /\ cerrs = {} <=> CreateAcceptable(creq.body)
        /\ (~Present(creq.body.name) \/ creq.body.name.len < 2
                \/ creq.body.name.len > 100) =>
                /\ NameErrors(cerrs) # {}
                /\ cres.status \in {0, 400}
                /\ cres.status = 400 => NameErrors(cres.errors) # {}
                /\ ~Ran("createCategory")

\* A creation whose name has 101 characters was answered 400 with a name error.
C3_Witness ==
    /\ creq.method = "POST"
    /\ creq.body.name.t = "string" /\ creq.body.name.len = 101
    /\ cres.status = 400
    /\ NameErrors(cres.errors) # {}

UpdateFieldsAcceptable(b) ==
    /\ Present(b.name) => b.name.t = "string" /\ b.name.len >= 2 /\ b.name.len <= 100
    /\ Present(b.type) => b.type.t = "string" /\ b.type.s \in {"product", "blog"}
    /\ Present(b.description) => b.description.t = "string" /\ b.description.len <= 500
    /\ Present(b.parent) => WellFormedId(b.parent)

UpdateChecked ==
    /\ creq.method = "PUT"
    /\ WellFormedId(creq.id)
    /\ Ran("updateCategoryValidation")

\* C4 as stated: on PUT /:id every body field is optional, and a field that is
\* present must satisfy the creation constraint, isActive being a boolean;
\* otherwise the request is rejected before the controller runs.
C4_UpdateValidationStrict ==
    UpdateChecked =>
        /\ cerrs = {} <=>
            /\ UpdateFieldsAcceptable(creq.body)
            /\ Present(creq.body.isActive) => creq.body.isActive.t = "boolean"
        /\ cerrs # {} => ~Ran("updateCategory")

\* C4 amended: on PUT /:id every body field is optional (any subset, the empty
\* payload included, passes); a present name, type, description or parent must
\* satisfy the creation constraint and a present isActive must be a boolean or a
\* value whose text is 'true', 'false', '1' or '0' (the strings, the numbers 1
\* and 0); otherwise the request is answered 400 before the controller runs.
C4_UpdateValidation ==
    UpdateChecked =>
        /\ cerrs = {} <=>
            /\ UpdateFieldsAcceptable(creq.body)
            /\ Present(creq.body.isActive) =>
                  \/ creq.body.isActive.t = "boolean"
                  \/ creq.body.isActive.s \in {"true", "false", "1", "0"}
        /\ cerrs # {} =>
            /\ ~Ran("updateCategory")
            /\ cres.status \in {0, 400}

\* An update with an empty payload reached the controller.
C4_Witness ==
    /\ creq.method = "PUT"
    /\ creq.body = EmptyBody
    /\ Ran("updateCategory")

(***************************************************************************)
(* Product claims.                                                         *)
(***************************************************************************)
ColdBrewCoffeeSlug ==
    Str16("c", "o", "l", "d", "-", "b", "r", "e", "w", "-", "c", "o", "f", "f", "e", "e")

HookRuns(d) == docs[d].pc = "validated" /\ docs'[d].pc = "hooked"

C5_Step ==
    \A d \in DocIds :
        /\ HookRuns(d) /\ docs[d].slug = <<>>
            => /\ docs'[d].slug = Slugify(docs[d].title)
               /\ docs[d].title = ColdBrewCoffee => docs'[d].slug = ColdBrewCoffeeSlug
        /\ db[d].stored => docs'[d].slug = docs[d].slug

\* C5: saving a Product that has no slug sets slug to the slugified title
\* ('Cold Brew Coffee' gives 'cold-brew-coffee'), and once the Product has been
\* saved no later step, a save after a title change included, changes its slug.
C5_SlugDerivedOnceAndKept == [][C5_Step]_vars

\* The slugs the saves of the model can produce without any suffix.
PlainSlugs ==
    {SlugSetter(g) : g \in GivenSlugs \ {<<>>}}
    \cup {Slugify(TitleSetter(t)) : t \in Titles}

\* C6: no two stored Products share a slug; a new Product whose write meets the
\* slug of a stored one ends with a duplicate-key error and is not stored; and
\* every stored slug is the given or the slugified one, never a suffixed variant.
C6_SlugUnique ==
    /\ \A a \in DocIds, b \in DocIds :
        a # b /\ db[a].stored /\ db[b].stored => db[a].slug # db[b].slug
    /\ \A d \in DocIds :
        docs[d].outcome = "DuplicateKey" /\ docs[d].isNew => ~db[d].stored
    /\ \A d \in DocIds : db[d].stored => db[d].slug \in PlainSlugs

C6_Witness ==
    /\ db[1].stored
    /\ db[1].slug = Str3("t", "e", "a")
    /\ docs[2].slug = db[1].slug
    /\ docs[2].outcome = "DuplicateKey"
    /\ ~db[2].stored

\* C7: a Product whose variants array is empty never passes validation: its save
\* ends with a ValidationError and every stored Product has at least one variant.
C7_VariantsNonEmpty ==
    \A d \in CatalogDocs :
        /\ db[d].stored => Len(db[d].variants) > 0
        /\ docs[d].pc # "absent" /\ Len(docs[d].variants) = 0
            => /\ docs[d].pc = "idle"
               /\ docs[d].outcome \in {"none", "ValidationError"}

C7_Witness ==
    /\ Len(docs[1].variants) = 0
    /\ docs[1].outcome = "ValidationError"
    /\ docs[1].discountPercentage = 15
    /\ docs[1].images = DefaultImages
    /\ ~db[1].stored

\* C8: a Product whose images array is empty never passes validation: its save
\* ends with a ValidationError and every stored Product has at least one image.
C8_ImagesNonEmpty ==
    \A d \in CatalogDocs :
        /\ db[d].stored => Len(db[d].images) > 0
        /\ docs[d].pc # "absent" /\ Len(docs[d].images) = 0
            => /\ docs[d].pc = "idle"
               /\ docs[d].outcome \in {"none", "ValidationError"}

\* C9: a stored Product has discountPercentage in 0..100, and its discountedPrices
\* has one entry per variant, in order, with the variant's size and
\* price - price * discountPercentage / 100, which lies between 0 and the price.
C9_DiscountedPricesInRange ==
    \A d \in CatalogDocs :
        db[d].stored =>
            /\ db[d].discountPercentage \in DiscountMin..DiscountMax
            /\ LET dps == discountedPrices(db[d])
               IN  /\ Len(dps) = Len(db[d].variants)
                   /\ \A i \in 1..Len(dps) :
                        /\ dps[i].size = db[d].variants[i].size
                        /\ dps[i].discountedPrice.sign >= 0
                        /\ Leq(dps[i].discountedPrice, db[d].variants[i].price)

(***************************************************************************)
(* Application stack claims.                                               *)
(***************************************************************************)
Answered == ares.status # 0

\* No route, mounted router or static file is registered for the request.
Unrouted(req) ==
    /\ \A i \in 1..Len(AppStack) :
        AppStack[i].kind \in {"route", "router"} => ~Applies(AppStack[i], req, "none")
    /\ req.path \notin StaticFiles

\* The layers that ran after the one that raised the pending error.
AfterError ==
    LET k == CHOOSE i \in 1..Len(aran) : aran[i] = aerr
    IN  SubSeq(aran, k + 1, Len(aran))

C10_Registered ==
    LET n == Len(AppStack)
    IN  /\ AppStack[n].name = "errorMiddleware"
        /\ AppStack[n - 1].name = "notFound"
        /\ \A i \in 1..(n - 1) : AppStack[i].kind # "error"
        /\ \A i \in 1..(n - 2) : AppStack[i].name # "notFound"

C10_NotFound ==
    /\ Answered /\ Unrouted(areq) /\ aerr = "none" /\ ares.by # "apiLimiter"
        => ares = [status |-> 404, by |-> "notFound", success |-> FALSE,
                   message |-> "Resource not found"]
    /\ ares.by = "notFound"
        => /\ aerr = "none"
           /\ \A i \in 1..Len(AppStack) :
                /\ AppStack[i].kind = "route" => ~Applies(AppStack[i], areq, "none")
                /\ AppStack[i].kind = "router" /\ Applies(AppStack[i], areq, "none")
                    => \E j \in 1..Len(aran) : aran[j] = AppStack[i].name

C10_ErrorHandled ==
    aerr # "none" =>
        /\ AfterError \in {<<>>, <<"errorMiddleware">>}
        /\ Answered => ares.by = "errorMiddleware"

\* C10: the catch-all 404 handler and then the one error handler are registered
\* after every route.  A request for which no route, router or static file is
\* registered, and which no earlier layer fails or rate-limits, is answered 404
\* { success: false, message: "Resource not found" }, and only such requests
\* reach the catch-all.  Once a layer passes an error to next(), no other layer
\* runs before errorMiddleware, which eventually answers the request.
C10_TerminalHandlers ==
    /\ [](C10_Registered /\ C10_NotFound /\ C10_ErrorHandled)
    /\ (aerr # "none") ~> (aerr # "none" /\ ares.by = "errorMiddleware")

C10_Witness ==
    /\ areq.path = <<"api", "nothing">>
    /\ areq.origin = "allowed"
    /\ "apiLimiter" \in {aran[i] : i \in 1..Len(aran)}
    /\ ares.status = 404
    /\ ares.by = "notFound"

====
